---------------------------- MODULE Spec2Model ----------------------------
(* A model of world_population_analysis.py: the module-level choice of     *)
(* RECENT_YEAR, then main()'s one-shot pipeline                            *)
(*   load_and_preprocess_data -> create_choropleth_map ->                  *)
(*   perform_hotspot_analysis -> world_map.save -> create_time_series_plot *)
(* A Python str is a sequence of one-character strings, so that str        *)
(* comparison (max) and str.isdigit() are computed as Python computes      *)
(* them. A table cell is <<>> (NaN) or <<v>> (the integer v).              *)
EXTENDS Integers, Sequences, FiniteSets, TLC

VARIABLES
    pc,            \* position of the run in the script
    csvAtImport,   \* data/world_population.csv as read at line 38
    csvAtLoad,     \* data/world_population.csv as read at line 55
    geojson,       \* data/world-countries.json as read at line 71
    RECENT_YEAR,   \* module-level global (lines 37-43)
    pop_df,        \* full_pop_df of main()
    merged_gdf,    \* merged_gdf of main()
    world_map,     \* the folium map: the sequence of layers added to it
    hotspot_gdf,   \* perform_hotspot_analysis: the filtered, labelled rows
    hotspot_layer, \* perform_hotspot_analysis: the markers added so far
    cluster_id,    \* perform_hotspot_analysis: the loop variable of line 173
    continent_ts,  \* create_time_series_plot: the data handed to px.line
    files,         \* output files written
    outputDir,     \* whether OUTPUT_DIR exists
    error,         \* the uncaught exception that ended the run, or "none"
    failedIn,      \* the function that raised it
    stdout         \* the progress messages printed so far

vars == <<pc, csvAtImport, csvAtLoad, geojson, RECENT_YEAR, pop_df,
          merged_gdf, world_map, hotspot_gdf, hotspot_layer, cluster_id,
          continent_ts, files, outputDir, error, failedIn, stdout>>

-----------------------------------------------------------------------------
(* Bounds of the model.                                                    *)

MaxYearCols == 2    \* columns after the first, startup family
MaxRows == 2        \* population rows, merge family
MaxCountries == 5   \* boundary countries, hotspot family
MaxClusters == 12   \* separated groups of countries, palette family
MaxTsRows == 3      \* population rows, time-series family

-----------------------------------------------------------------------------
(* Python strings and values.                                              *)

Digits == <<"0", "1", "2", "3", "4", "5", "6", "7", "8", "9">>

IsDigitChar(c) == \E i \in 1..10 : Digits[i] = c

DigitVal(c) == (CHOOSE i \in 1..10 : Digits[i] = c) - 1

\* str.isdigit(): non-empty and every character a digit
isdigit(s) == Len(s) > 0 /\ \A i \in 1..Len(s) : IsDigitChar(s[i])

\* Python's str "<" on digit strings: by code point, a proper prefix is less
RECURSIVE StrLess(_, _)
StrLess(a, b) ==
    IF b = <<>> THEN FALSE
    ELSE IF a = <<>> THEN TRUE
    ELSE IF Head(a) # Head(b) THEN DigitVal(Head(a)) < DigitVal(Head(b))
    ELSE StrLess(Tail(a), Tail(b))

\* int(s) of a digit string (pd.to_numeric on the year labels)
RECURSIVE IntVal(_)
IntVal(s) ==
    IF s = <<>> THEN 0
    ELSE 10 * IntVal(SubSeq(s, 1, Len(s) - 1)) + DigitVal(s[Len(s)])

NaN == <<>>

NoFile == [columns |-> <<>>, rows |-> <<>>, exists |-> FALSE]

Table(cols, rows) == [columns |-> cols, rows |-> rows, exists |-> TRUE]

\* one csv line: the first column's value and the cells of the other columns
Row(name, cells) == [country |-> name, vals |-> cells]

Range(s) == {s[i] : i \in 1..Len(s)}

RECURSIVE SeqSum(_)
SeqSum(s) == IF s = <<>> THEN 0 ELSE Head(s) + SeqSum(Tail(s))

RECURSIVE Flatten(_)
Flatten(ss) == IF ss = <<>> THEN <<>> ELSE Head(ss) \o Flatten(Tail(ss))

-----------------------------------------------------------------------------
(* Configuration and constants of the script.                              *)

CHOROPLETH_MAP_HTML == "output/world_population_map.html"
TIME_SERIES_HTML == "output/population_over_time.html"

\* a different default year
DEFAULT_YEAR_2021 == <<"2", "0", "2", "1">>

DEFAULT_YEAR == <<"2", "0", "2", "2">>

COUNTRY == <<"c", "o", "u", "n", "t", "r", "y">>

POPULATION_THRESHOLD == 1000000
eps == 15
min_samples == 3

\* px.colors.qualitative.Bold
Bold == <<"rgb(127, 60, 141)", "rgb(17, 165, 121)", "rgb(57, 105, 172)",
          "rgb(242, 183, 1)", "rgb(231, 63, 116)", "rgb(128, 186, 90)",
          "rgb(230, 131, 16)", "rgb(0, 134, 149)", "rgb(207, 28, 144)",
          "rgb(249, 123, 114)", "rgb(165, 170, 153)">>

country_name_map ==
    [k \in {"United States", "Russian Federation", "Egypt, Arab Rep.",
            "Hong Kong SAR, China", "Iran, Islamic Rep.", "Macao SAR, China",
            "Congo, Dem. Rep.", "Congo, Rep.", "Venezuela, RB", "Yemen, Rep.",
            "Korea, Rep.", "United Kingdom"} |->
        CASE k = "United States" -> "United States of America"
          [] k = "Russian Federation" -> "Russia"
          [] k = "Egypt, Arab Rep." -> "Egypt"
          [] k = "Hong Kong SAR, China" -> "Hong Kong"
          [] k = "Iran, Islamic Rep." -> "Iran"
          [] k = "Macao SAR, China" -> "Macau"
          [] k = "Congo, Dem. Rep." -> "Democratic Republic of the Congo"
          [] k = "Congo, Rep." -> "Republic of the Congo"
          [] k = "Venezuela, RB" -> "Venezuela"
          [] k = "Yemen, Rep." -> "Yemen"
          [] k = "Korea, Rep." -> "South Korea"
          [] k = "United Kingdom" -> "United Kingdom"]

-----------------------------------------------------------------------------
(* Module level, lines 37-43.                                              *)

\* year_columns = [col for col in df_temp.columns if col.isdigit()]
year_columns(columns) == SelectSeq(columns, isdigit)

\* max() of a non-empty list of str: the first greatest element
RECURSIVE PyMax(_)
PyMax(s) ==
    IF Len(s) = 1 THEN s[1]
    ELSE LET m == PyMax(SubSeq(s, 1, Len(s) - 1))
         IN IF StrLess(m, s[Len(s)]) THEN s[Len(s)] ELSE m

Fail(fn, exc) ==
    /\ pc' = "failed"
    /\ error' = exc
    /\ failedIn' = fn

\* lines 38-40: the file is there and has a digit-named column
ModuleLoad ==
    /\ pc = "import"
    /\ csvAtImport.exists
    /\ year_columns(csvAtImport.columns) # <<>>
    /\ RECENT_YEAR' = PyMax(year_columns(csvAtImport.columns))
    /\ pc' = "main"
    /\ UNCHANGED <<csvAtImport, csvAtLoad, geojson, pop_df, merged_gdf,
                   world_map, hotspot_gdf, hotspot_layer, cluster_id,
                   continent_ts, files, outputDir, error, failedIn, stdout>>

\* lines 41-43: FileNotFoundError is caught, the default year is used
ModuleLoadFileNotFound ==
    /\ pc = "import"
    /\ ~csvAtImport.exists
    /\ RECENT_YEAR' = DEFAULT_YEAR
    /\ stdout' = Append(stdout, "Warning: Population data file not found")
    /\ pc' = "main"
    /\ UNCHANGED <<csvAtImport, csvAtLoad, geojson, pop_df, merged_gdf,
                   world_map, hotspot_gdf, hotspot_layer, cluster_id,
                   continent_ts, files, outputDir, error, failedIn>>

\* line 40: max() of an empty list raises ValueError, which line 41 does not catch
ModuleLoadNoYearColumn ==
    /\ pc = "import"
    /\ csvAtImport.exists
    /\ year_columns(csvAtImport.columns) = <<>>
    /\ Fail("<module>", "ValueError")
    /\ UNCHANGED <<csvAtImport, csvAtLoad, geojson, RECENT_YEAR, pop_df,
                   merged_gdf, world_map, hotspot_gdf, hotspot_layer,
                   cluster_id, continent_ts, files, outputDir, stdout>>

-----------------------------------------------------------------------------
(* main(), lines 244-245.                                                  *)

MainMakeDirs ==
    /\ pc = "main"
    /\ outputDir' = TRUE
    /\ pc' = "load"
    /\ UNCHANGED <<csvAtImport, csvAtLoad, geojson, RECENT_YEAR, pop_df,
                   merged_gdf, world_map, hotspot_gdf, hotspot_layer,
                   cluster_id, continent_ts, files, error, failedIn, stdout>>

-----------------------------------------------------------------------------
(* load_and_preprocess_data(), lines 46-99.                                *)

\* lines 58-59: the first column is renamed to 'country'
rename_first(df) == [df EXCEPT !.columns = <<COUNTRY>> \o Tail(@)]

\* the check of line 62 left out
YearAbsent_unchecked(year, columns) == FALSE

\* line 62: RECENT_YEAR not in pop_df.columns
YearAbsent(year, columns) == year \notin Range(columns)

\* the cell of column col in one row (the first column holds the names)
Cell(row, columns, col) ==
    IF \E j \in 2..Len(columns) : columns[j] = col
    THEN row.vals[(CHOOSE j \in 2..Len(columns) : columns[j] = col) - 1]
    ELSE NaN

\* lines 65-66: pop_df[["country", RECENT_YEAR]], renamed country/population
select_recent(df, year) ==
    [i \in 1..Len(df.rows) |->
        [country |-> df.rows[i].country,
         population |-> Cell(df.rows[i], df.columns, year)]]

HasPopulation(r) == r.population # NaN

\* line 67: dropna(subset=["population"]); line 68, astype(int), leaves the
\* integers of the model as they are
dropna(rows) == SelectSeq(rows, HasPopulation)

\* the rewrite of line 90 left out
replace_nothing(name) == name

\* line 90: Series.replace(country_name_map) on one value
replace(name) ==
    IF name \in DOMAIN country_name_map THEN country_name_map[name] ELSE name

reconcile(rows) ==
    [i \in 1..Len(rows) |-> [rows[i] EXCEPT !.country = replace(@)]]

\* line 93: world_gdf.merge(pop_recent, on="country", how="left"): every left
\* row once per matching right row, or once with NaN when none matches
merge_left(world, pop) ==
    Flatten([i \in 1..Len(world) |->
        LET m == SelectSeq(pop, LAMBDA r : r.country = world[i].country)
        IN IF m = <<>>
           THEN <<[country |-> world[i].country,
                   centroid |-> world[i].centroid,
                   population |-> NaN]>>
           ELSE [j \in 1..Len(m) |->
                   [country |-> world[i].country,
                    centroid |-> world[i].centroid,
                    population |-> m[j].population]]])

\* the fill of line 96 left out
fillna_nothing(rows) == rows

\* line 96: fillna(0)
fillna(rows) ==
    [i \in 1..Len(rows) |->
        IF rows[i].population = NaN
        THEN [rows[i] EXCEPT !.population = <<0>>]
        ELSE rows[i]]

\* lines 65-96 as one function of the renamed table and the boundaries
preprocess(df, world, year) ==
    fillna(merge_left(world, reconcile(dropna(select_recent(df, year)))))

\* line 55: pd.read_csv raises FileNotFoundError
LoadFileNotFound ==
    /\ pc = "load"
    /\ ~csvAtLoad.exists
    /\ stdout' = Append(stdout, "Loading and preprocessing data...")
    /\ Fail("load_and_preprocess_data", "FileNotFoundError")
    /\ UNCHANGED <<csvAtImport, csvAtLoad, geojson, RECENT_YEAR, pop_df,
                   merged_gdf, world_map, hotspot_gdf, hotspot_layer,
                   cluster_id, continent_ts, files, outputDir>>

\* lines 62-63: the year is not a column of the table just read
LoadYearAbsent ==
    /\ pc = "load"
    /\ csvAtLoad.exists
    /\ YearAbsent(RECENT_YEAR, rename_first(csvAtLoad).columns)
    /\ stdout' = Append(stdout, "Loading and preprocessing data...")
    /\ Fail("load_and_preprocess_data", "ValueError")
    /\ UNCHANGED <<csvAtImport, csvAtLoad, geojson, RECENT_YEAR, pop_df,
                   merged_gdf, world_map, hotspot_gdf, hotspot_layer,
                   cluster_id, continent_ts, files, outputDir>>

\* lines 53-99, returning (merged_gdf, pop_df)
LoadAndPreprocess ==
    /\ pc = "load"
    /\ csvAtLoad.exists
    /\ ~YearAbsent(RECENT_YEAR, rename_first(csvAtLoad).columns)
    /\ pop_df' = rename_first(csvAtLoad)
    /\ merged_gdf' = preprocess(rename_first(csvAtLoad), geojson, RECENT_YEAR)
    /\ stdout' = stdout \o <<"Loading and preprocessing data...",
                             "Data loading and preprocessing complete.">>
    /\ pc' = "choropleth"
    /\ UNCHANGED <<csvAtImport, csvAtLoad, geojson, RECENT_YEAR, world_map,
                   hotspot_gdf, hotspot_layer, cluster_id, continent_ts,
                   files, outputDir, error, failedIn>>

-----------------------------------------------------------------------------
(* create_choropleth_map(), lines 102-140.                                 *)

Layer(name, children) == [name |-> name, children |-> children]

CreateChoroplethMap ==
    /\ pc = "choropleth"
    /\ world_map' = <<Layer("Population", <<>>)>>
    /\ stdout' = stdout \o <<"Creating choropleth map...",
                             "Choropleth map created.">>
    /\ pc' = "hotspot"
    /\ UNCHANGED <<csvAtImport, csvAtLoad, geojson, RECENT_YEAR, pop_df,
                   merged_gdf, hotspot_gdf, hotspot_layer, cluster_id,
                   continent_ts, files, outputDir, error, failedIn>>

-----------------------------------------------------------------------------
(* perform_hotspot_analysis(), lines 143-187.                              *)

\* ">=" for ">" at line 153
Significant_inclusive(r) == r.population[1] >= POPULATION_THRESHOLD

\* line 153: gdf["population"] > 1_000_000
Significant(r) == r.population[1] > POPULATION_THRESHOLD

hotspot_filter(gdf) == SelectSeq(gdf, Significant)

\* line 157: [p.y, p.x] of each centroid
coords_of(rows) == [i \in 1..Len(rows) |-> rows[i].centroid]

\* the squared Euclidean distance of two (lat, lon) points, in degrees
Dist2(p, q) == (p[1] - q[1]) * (p[1] - q[1]) + (p[2] - q[2]) * (p[2] - q[2])

\* DBSCAN's radius neighbourhood: the points within eps, the point itself included
neighborhood(coords, i) ==
    {j \in 1..Len(coords) : Dist2(coords[i], coords[j]) <= eps * eps}

is_core(coords, i) == Cardinality(neighborhood(coords, i)) >= min_samples

\* the points reached from S by expanding core points
RECURSIVE Expand(_, _)
Expand(coords, S) ==
    LET N == S \cup UNION {neighborhood(coords, i) :
                             i \in {s \in S : is_core(coords, s)}}
    IN IF N = S THEN S ELSE Expand(coords, N)

\* DBSCAN's labelling loop: each unlabelled core point, in order, starts the
\* next cluster, which takes every still unlabelled point it reaches
RECURSIVE dbscan_inner(_, _, _, _)
dbscan_inner(coords, i, labels, label_num) ==
    IF i > Len(coords) THEN labels
    ELSE IF labels[i] # -1 \/ ~is_core(coords, i)
    THEN dbscan_inner(coords, i + 1, labels, label_num)
    ELSE LET C == {j \in Expand(coords, {i}) : labels[j] = -1}
         IN dbscan_inner(coords, i + 1,
                [j \in 1..Len(coords) |->
                    IF j \in C THEN label_num ELSE labels[j]],
                label_num + 1)

\* line 162: DBSCAN(eps=15, min_samples=3).fit(coords).labels_
dbscan_labels(coords) ==
    dbscan_inner(coords, 1, [j \in 1..Len(coords) |-> -1], 0)

labels_of(rows) == [i \in 1..Len(rows) |-> rows[i].cluster]

\* line 170
num_clusters(labels) ==
    Cardinality(Range(labels)) - (IF -1 \in Range(labels) THEN 1 ELSE 0)

\* line 171: a slice never raises, it stops at the end of the palette
colors(n) == SubSeq(Bold, 1, IF n < Len(Bold) THEN n ELSE Len(Bold))

\* line 174
cluster_points(rows, c) == SelectSeq(rows, LAMBDA r : r.cluster = c)

\* lines 176-184: one CircleMarker
CircleMarker(row, c, color) ==
    [location |-> row.centroid, color |-> color, country |-> row.country,
     cluster |-> c]

\* line 162: fit() rejects an array with no sample (np.array([]) is not 2-D)
HotspotNoSamples ==
    /\ pc = "hotspot"
    /\ hotspot_filter(merged_gdf) = <<>>
    /\ stdout' = Append(stdout, "Performing hotspot analysis...")
    /\ Fail("perform_hotspot_analysis", "ValueError")
    /\ UNCHANGED <<csvAtImport, csvAtLoad, geojson, RECENT_YEAR, pop_df,
                   merged_gdf, world_map, hotspot_gdf, hotspot_layer,
                   cluster_id, continent_ts, files, outputDir>>

\* lines 151-171: filter, centroids, clustering, the empty feature group
HotspotCluster ==
    /\ pc = "hotspot"
    /\ hotspot_filter(merged_gdf) # <<>>
    /\ LET rows == hotspot_filter(merged_gdf)
           labels == dbscan_labels(coords_of(rows))
       IN hotspot_gdf' =
            [i \in 1..Len(rows) |->
                [country |-> rows[i].country, centroid |-> rows[i].centroid,
                 population |-> rows[i].population, cluster |-> labels[i]]]
    /\ hotspot_layer' = <<>>
    /\ cluster_id' = 0
    /\ stdout' = Append(stdout, "Performing hotspot analysis...")
    /\ pc' = "markers"
    /\ UNCHANGED <<csvAtImport, csvAtLoad, geojson, RECENT_YEAR, pop_df,
                   merged_gdf, world_map, continent_ts, files, outputDir,
                   error, failedIn>>

\* lines 173-184: one pass of the loop over cluster ids
HotspotMarkCluster ==
    /\ pc = "markers"
    /\ cluster_id < num_clusters(labels_of(hotspot_gdf))
    /\ LET pts == cluster_points(hotspot_gdf, cluster_id)
           cols == colors(num_clusters(labels_of(hotspot_gdf)))
       IN /\ pts = <<>> \/ cluster_id < Len(cols)
          /\ hotspot_layer' = hotspot_layer \o
                [i \in 1..Len(pts) |->
                    CircleMarker(pts[i], cluster_id, cols[cluster_id + 1])]
    /\ cluster_id' = cluster_id + 1
    /\ UNCHANGED <<pc, csvAtImport, csvAtLoad, geojson, RECENT_YEAR, pop_df,
                   merged_gdf, world_map, hotspot_gdf, continent_ts, files,
                   outputDir, error, failedIn, stdout>>

\* line 179: colors[cluster_id] past the end of the sliced palette
HotspotPaletteIndexError ==
    /\ pc = "markers"
    /\ cluster_id < num_clusters(labels_of(hotspot_gdf))
    /\ cluster_points(hotspot_gdf, cluster_id) # <<>>
    /\ cluster_id >= Len(colors(num_clusters(labels_of(hotspot_gdf))))
    /\ Fail("perform_hotspot_analysis", "IndexError")
    /\ UNCHANGED <<csvAtImport, csvAtLoad, geojson, RECENT_YEAR, pop_df,
                   merged_gdf, world_map, hotspot_gdf, hotspot_layer,
                   cluster_id, continent_ts, files, outputDir, stdout>>

\* lines 186-187
HotspotAddLayer ==
    /\ pc = "markers"
    /\ cluster_id = num_clusters(labels_of(hotspot_gdf))
    /\ world_map' = Append(world_map,
                           Layer("Population Hotspots", hotspot_layer))
    /\ stdout' = Append(stdout, "Found hotspots.")
    /\ pc' = "save"
    /\ UNCHANGED <<csvAtImport, csvAtLoad, geojson, RECENT_YEAR, pop_df,
                   merged_gdf, hotspot_gdf, hotspot_layer, cluster_id,
                   continent_ts, files, outputDir, error, failedIn>>

-----------------------------------------------------------------------------
(* main(), lines 256-259.                                                  *)

SaveMap ==
    /\ pc = "save"
    /\ world_map' = Append(world_map, Layer("LayerControl", <<>>))
    /\ files' = files \cup {CHOROPLETH_MAP_HTML}
    /\ stdout' = Append(stdout, "Interactive map saved")
    /\ pc' = "timeseries"
    /\ UNCHANGED <<csvAtImport, csvAtLoad, geojson, RECENT_YEAR, pop_df,
                   merged_gdf, hotspot_gdf, hotspot_layer, cluster_id,
                   continent_ts, outputDir, error, failedIn>>

-----------------------------------------------------------------------------
(* create_time_series_plot(), lines 190-238.                               *)

CONTINENT == <<"c", "o", "n", "t", "i", "n", "e", "n", "t">>

\* lines 199-204: the name -> alpha2 -> continent lookup of pycountry_convert
\* on the names the model uses; any failure of the lookup gives None
get_continent(country_name) ==
    CASE country_name = "Russia" -> <<"EU">>
      [] country_name = "Russian Federation" -> <<"EU">>
      [] country_name = "Egypt" -> <<"AF">>
      [] OTHER -> NaN

\* line 206: pop_df['continent'] = pop_df['country'].apply(get_continent)
add_continent(df) ==
    [columns |-> Append(df.columns, CONTINENT),
     rows |-> [i \in 1..Len(df.rows) |->
                 Row(df.rows[i].country,
                     Append(df.rows[i].vals, get_continent(df.rows[i].country)))],
     exists |-> TRUE]

\* lines 209-212: pd.melt, one block of rows per year column
melt(df) ==
    LET value_vars == SelectSeq(df.columns, isdigit)
    IN Flatten([k \in 1..Len(value_vars) |->
          [i \in 1..Len(df.rows) |->
              [country |-> df.rows[i].country,
               continent |-> Cell(df.rows[i], df.columns, CONTINENT),
               year |-> value_vars[k],
               population |-> Cell(df.rows[i], df.columns, value_vars[k])]]])

\* a sum that a NaN cell turns into NaN (skipna=False)
sum_keepna(cells) ==
    IF \E i \in 1..Len(cells) : cells[i] = NaN
    THEN NaN
    ELSE <<SeqSum([i \in 1..Len(cells) |-> cells[i][1]])>>

\* Series.sum() of a group: NaN cells are skipped, an all-NaN group sums to 0
sum_skipna(cells) ==
    LET present == SelectSeq(cells, LAMBDA c : c # NaN)
    IN <<SeqSum([i \in 1..Len(present) |-> present[i][1]])>>

\* line 215: groupby(['continent', 'year'])['population'].sum().reset_index();
\* a row whose continent is None belongs to no group
groupby_sum(long_df) ==
    LET keys == {<<r.continent, r.year>> :
                    r \in {x \in Range(long_df) : x.continent # NaN}}
    IN {[continent |-> k[1], year |-> k[2],
         population |->
            LET grp == SelectSeq(long_df,
                          LAMBDA r : r.continent = k[1] /\ r.year = k[2])
            IN sum_skipna([i \in 1..Len(grp) |-> grp[i].population])] :
        k \in keys}

\* line 216: dropna(); line 217: pd.to_numeric on the year labels
time_series(df) ==
    {[continent |-> r.continent[1], year |-> IntVal(r.year),
      population |-> r.population[1]] :
     r \in {x \in groupby_sum(melt(add_continent(df))) :
              x.continent # NaN /\ x.population # NaN}}

CreateTimeSeriesPlot ==
    /\ pc = "timeseries"
    /\ pop_df' = add_continent(pop_df)
    /\ continent_ts' = time_series(pop_df)
    /\ files' = files \cup {TIME_SERIES_HTML}
    /\ stdout' = stdout \o <<"Creating time-series plot...",
                             "Time-series plot created.",
                             "Time-series plot saved", "Analysis complete!">>
    /\ pc' = "done"
    /\ UNCHANGED <<csvAtImport, csvAtLoad, geojson, RECENT_YEAR, merged_gdf,
                   world_map, hotspot_gdf, hotspot_layer, cluster_id,
                   outputDir, error, failedIn>>

-----------------------------------------------------------------------------
(* The inputs: the two files, as families of small cases.                  *)

COUNTRY_NAME == <<"C", "o", "u", "n", "t", "r", "y", " ", "N", "a", "m", "e">>
Y2021 == <<"2", "0", "2", "1">>
Y2022 == <<"2", "0", "2", "2">>

Geo(name, lat, lon) == [country |-> name, centroid |-> <<lat, lon>>]

Russia == Geo("Russia", 60, 100)
Egypt == Geo("Egypt", 27, 30)

\* the sequences of distinct elements of S of length at most n
RECURSIVE DistinctSeqs(_, _)
DistinctSeqs(S, n) ==
    IF n = 0 THEN {<<>>}
    ELSE LET shorter == DistinctSeqs(S, n - 1)
         IN shorter \cup
               UNION {{Append(q, x) : x \in S \ Range(q)} : q \in shorter}

\* the sequences of elements of S of length at most n
RECURSIVE SeqsUpTo(_, _)
SeqsUpTo(S, n) ==
    IF n = 0 THEN {<<>>}
    ELSE LET shorter == SeqsUpTo(S, n - 1)
         IN shorter \cup {Append(q, x) : q \in shorter, x \in S}

\* startup: which columns the file has when imported and when loaded
YearHeaderPool ==
    {<<"9", "9", "9">>, <<"1", "0", "0", "0">>, Y2022,
     <<"C", "o", "d", "e">>}

YearTables ==
    {Table(<<COUNTRY_NAME>> \o hs,
           <<Row("Russia", [j \in 1..Len(hs) |-> <<144000000>>])>>) :
        hs \in DistinctSeqs(YearHeaderPool, MaxYearCols)}

\* merge: which names and values the population rows carry
MergeRows ==
    {Row(n, <<c>>) :
        n \in {"Russia", "Russian Federation", "Egypt, Arab Rep.", "World"},
        c \in {NaN, <<0>>, <<1000000>>, <<144000000>>}}

\* hotspot: where the centroids lie
Positions == {<<0, 0>>, <<0, 15>>, <<12, 24>>}

Name(i) == "C" \o ToString(i)

\* palette: group g of three countries, 30 degrees from the next group
GroupPos(g) == <<(g % 4) * 30 - 45, (g \div 4) * 30 - 150>>

\* time series: names and the cells of two year columns
TsRows ==
    {Row(n, <<a, b>>) :
        n \in {"Russia", "Russian Federation", "Egypt", "World"},
        a \in {NaN, <<3000000>>}, b \in {NaN, <<2000000>>}} \
    {Row(n, <<NaN, NaN>>) :
        n \in {"Russia", "Russian Federation", "Egypt", "World"}}

InitRun ==
    /\ pc = "import"
    /\ RECENT_YEAR = <<>>
    /\ pop_df = NoFile
    /\ merged_gdf = <<>>
    /\ world_map = <<>>
    /\ hotspot_gdf = <<>>
    /\ hotspot_layer = <<>>
    /\ cluster_id = 0
    /\ continent_ts = {}
    /\ files = {}
    /\ outputDir \in BOOLEAN
    /\ error = "none"
    /\ failedIn = "none"
    /\ stdout = <<>>

InitYears ==
    /\ csvAtImport \in YearTables \cup {NoFile}
    /\ csvAtLoad \in YearTables \cup {NoFile}
    /\ geojson = <<Russia>>

InitMerge ==
    /\ csvAtImport \in {Table(<<COUNTRY_NAME, Y2022>>, rows) :
                           rows \in SeqsUpTo(MergeRows, MaxRows)}
    /\ csvAtLoad = csvAtImport
    /\ geojson \in {<<Russia, Egypt>>, <<Egypt>>}

\* n countries, at most one of them (country t) of exactly the threshold
InitHotspot ==
    \E n \in 0..MaxCountries :
        \E pos \in [1..n -> Positions] :
            \E t \in 0..n :
                /\ geojson = [i \in 1..n |-> Geo(Name(i), pos[i][1], pos[i][2])]
                /\ csvAtImport =
                     Table(<<COUNTRY_NAME, Y2022>>,
                           [i \in 1..n |->
                              Row(Name(i),
                                  <<<<IF i = t THEN POPULATION_THRESHOLD
                                      ELSE POPULATION_THRESHOLD + 1>>>>)])
                /\ csvAtLoad = csvAtImport

InitPalette ==
    \E k \in 0..MaxClusters :
        /\ geojson = [i \in 1..(3 * k) |->
                        Geo(Name(i), GroupPos((i - 1) \div 3)[1],
                            GroupPos((i - 1) \div 3)[2])]
        /\ csvAtImport =
             Table(<<COUNTRY_NAME, Y2022>>,
                   [i \in 1..(3 * k) |->
                      Row(Name(i), <<<<POPULATION_THRESHOLD + 1>>>>)])
        /\ csvAtLoad = csvAtImport

InitTimeSeries ==
    /\ csvAtImport \in {Table(<<COUNTRY_NAME, Y2021, Y2022>>, rows) :
                           rows \in SeqsUpTo(TsRows, MaxTsRows)}
    /\ csvAtLoad = csvAtImport
    /\ geojson = <<Russia, Egypt>>

Init ==
    /\ InitRun
    /\ \/ InitYears
       \/ InitMerge
       \/ InitHotspot
       \/ InitPalette
       \/ InitTimeSeries

Next ==
    \/ ModuleLoad
    \/ ModuleLoadFileNotFound
    \/ ModuleLoadNoYearColumn
    \/ MainMakeDirs
    \/ LoadFileNotFound
    \/ LoadYearAbsent
    \/ LoadAndPreprocess
    \/ CreateChoroplethMap
    \/ HotspotNoSamples
    \/ HotspotCluster
    \/ HotspotMarkCluster
    \/ HotspotPaletteIndexError
    \/ HotspotAddLayer
    \/ SaveMap
    \/ CreateTimeSeriesPlot

Spec == Init /\ [][Next]_vars

-----------------------------------------------------------------------------
(* The claims.                                                             *)

\* load_and_preprocess_data has returned
Loaded == \E i \in 1..Len(stdout) :
             stdout[i] = "Data loading and preprocessing complete."

BoundaryNames == {geojson[i].country : i \in 1..Len(geojson)}

MergedRowsOf(name) == {i \in 1..Len(merged_gdf) : merged_gdf[i].country = name}

\* the boundary-source spelling of a population-source name
AliasOf(name) ==
    IF name \in DOMAIN country_name_map THEN country_name_map[name] ELSE name

\* the table that load_and_preprocess_data read, first column renamed
LoadedTable == rename_first(csvAtLoad)

\* the most-recent-year cell of row i of the loaded table
RecentCell(i) == Cell(LoadedTable.rows[i], LoadedTable.columns, RECENT_YEAR)

\* the rows of the loaded table whose reconciled name is name
MatchingRows(name) ==
    {i \in 1..Len(LoadedTable.rows) : AliasOf(LoadedTable.rows[i].country) = name}

\* C1: the merged output holds every boundary country exactly once, holds no
\* country outside the boundary source, and every merged population is a
\* number >= 0, also when several population rows reconcile to one name.
C1_MergedOncePerBoundaryCountry ==
    Loaded =>
        /\ \A name \in BoundaryNames : Cardinality(MergedRowsOf(name)) = 1
        /\ \A i \in 1..Len(merged_gdf) :
              /\ merged_gdf[i].country \in BoundaryNames
              /\ merged_gdf[i].population # NaN
              /\ merged_gdf[i].population[1] >= 0

\* the loaded table with every alias spelled as the boundary source spells it
DirectlySpelled ==
    [LoadedTable EXCEPT !.rows =
        [i \in 1..Len(LoadedTable.rows) |->
            [LoadedTable.rows[i] EXCEPT !.country = AliasOf(@)]]]

\* the loaded table without the rows that name no boundary and no alias key
WithoutStrangers ==
    [LoadedTable EXCEPT !.rows =
        SelectSeq(LoadedTable.rows,
                  LAMBDA r : r.country \in BoundaryNames
                             \/ r.country \in DOMAIN country_name_map)]

\* the join of lines 65-96 with no rewrite of names
JoinWithoutAliasing(df) ==
    fillna(merge_left(geojson, dropna(select_recent(df, RECENT_YEAR))))

\* C2: a population row named by an alias key a, with value v, gives the
\* boundary country country_name_map[a] a merged row of population v; the
\* merged output is the one the directly spelled table gives with no
\* aliasing; rows that name neither a boundary nor an alias key change nothing.
C2_AliasPreservesValue ==
    Loaded =>
        /\ \A i \in 1..Len(LoadedTable.rows) :
              LET a == LoadedTable.rows[i].country
              IN (/\ a \in DOMAIN country_name_map
                  /\ country_name_map[a] \in BoundaryNames
                  /\ RecentCell(i) # NaN)
                 => \E j \in MergedRowsOf(country_name_map[a]) :
                       merged_gdf[j].population = RecentCell(i)
        /\ merged_gdf = JoinWithoutAliasing(DirectlySpelled)
        /\ merged_gdf = preprocess(WithoutStrangers, geojson, RECENT_YEAR)

\* C2's case: "Russian Federation" with 144000000 reached "Russia", beside a
\* row that names neither a boundary nor an alias key
C2_Witness ==
    /\ Loaded
    /\ \E i \in 1..Len(LoadedTable.rows) :
          /\ LoadedTable.rows[i].country = "Russian Federation"
          /\ RecentCell(i) = <<144000000>>
    /\ \E i \in 1..Len(LoadedTable.rows) :
          /\ LoadedTable.rows[i].country = "World"
          /\ RecentCell(i) # NaN
    /\ \E j \in MergedRowsOf("Russia") : merged_gdf[j].population = <<144000000>>

\* a boundary country with no reconciled population row, or only null ones
Unmatched(name) == \A i \in MatchingRows(name) : RecentCell(i) = NaN

\* C3: a boundary country with no population row of its name after
\* reconciliation, or whose matching row is null in the most recent year, is
\* in the merged output once, with population 0, and no merged population is null.
C3_UnmatchedIsZero ==
    Loaded =>
        /\ \A name \in BoundaryNames :
              Unmatched(name) =>
                 /\ Cardinality(MergedRowsOf(name)) = 1
                 /\ \A j \in MergedRowsOf(name) : merged_gdf[j].population = <<0>>
        /\ \A j \in 1..Len(merged_gdf) : merged_gdf[j].population # NaN

\* C3's case: one boundary country has no row at all, another only a null row
C3_Witness ==
    /\ Loaded
    /\ \E name \in BoundaryNames : MatchingRows(name) = {}
    /\ \E name \in BoundaryNames :
          /\ Cardinality(MatchingRows(name)) = 1
          /\ Unmatched(name)
    /\ \A j \in 1..Len(merged_gdf) : merged_gdf[j].population = <<0>>

\* every marker of the map: those of the layer being built and those added
Markers ==
    Range(hotspot_layer) \cup
    UNION {Range(world_map[i].children) : i \in 1..Len(world_map)}

\* C4: every row passed to clustering has population > 1,000,000; a country
\* whose merged population is <= 1,000,000 has no cluster id and no marker;
\* every marker belongs to a row the clustering put in a cluster, never to noise.
C4_NoSmallOrNoiseHotspot ==
    /\ \A i \in 1..Len(hotspot_gdf) : hotspot_gdf[i].population[1] > 1000000
    /\ \A j \in 1..Len(merged_gdf) :
          (\A k \in MergedRowsOf(merged_gdf[j].country) :
              merged_gdf[k].population[1] <= 1000000)
          => /\ \A i \in 1..Len(hotspot_gdf) :
                   hotspot_gdf[i].country # merged_gdf[j].country
             /\ \A m \in Markers : m.country # merged_gdf[j].country
    /\ \A m \in Markers :
          /\ m.cluster >= 0
          /\ \E i \in 1..Len(hotspot_gdf) :
                /\ hotspot_gdf[i].country = m.country
                /\ hotspot_gdf[i].cluster = m.cluster
          /\ \A i \in 1..Len(hotspot_gdf) :
                hotspot_gdf[i].country = m.country => hotspot_gdf[i].cluster # -1

\* C4's case: the run is over, a country of exactly 1,000,000 was merged, a
\* qualifying country was labelled noise, and a cluster got its markers
C4_Witness ==
    /\ pc = "done"
    /\ \E j \in 1..Len(merged_gdf) : merged_gdf[j].population = <<1000000>>
    /\ \E i \in 1..Len(hotspot_gdf) : hotspot_gdf[i].cluster = -1
    /\ Cardinality(Markers) >= 3

\* the year columns of the loaded table
YearLabels == {LoadedTable.columns[j] : j \in 2..Len(LoadedTable.columns)}
                 \cap {h \in Range(LoadedTable.columns) : isdigit(h)}

\* the rows of the loaded table that resolve to continent c
RowsOfContinent(c) ==
    {i \in 1..Len(LoadedTable.rows) :
        get_continent(LoadedTable.rows[i].country) = <<c>>}

\* the sum over a set of rows of the non-null cells of column y
RECURSIVE ColumnTotal(_, _)
ColumnTotal(rows, y) ==
    IF rows = {} THEN 0
    ELSE LET i == CHOOSE r \in rows : TRUE
             c == Cell(LoadedTable.rows[i], LoadedTable.columns, y)
         IN (IF c = NaN THEN 0 ELSE c[1]) + ColumnTotal(rows \ {i}, y)

\* C5: the time-series data holds, for each continent that some row resolves
\* to and each year column, one row whose total is the sum of that year's
\* non-null values over the rows resolving to that continent, and nothing
\* else: no row of an unresolved continent.
C5_ContinentTotals ==
    pc = "done" =>
        continent_ts =
            {[continent |-> c, year |-> IntVal(y),
              population |-> ColumnTotal(RowsOfContinent(c), y)] :
             c \in {k \in {"EU", "AF", "AS", "NA", "SA", "OC", "AN"} :
                       RowsOfContinent(k) # {}},
             y \in YearLabels}

\* C5's case: two rows of one continent, one of them with a null cell, are
\* summed beside a "World" row that carries a value
C5_Witness ==
    /\ pc = "done"
    /\ Cardinality(RowsOfContinent("EU")) = 2
    /\ \E i \in RowsOfContinent("EU") :
          Cell(LoadedTable.rows[i], LoadedTable.columns, Y2021) = NaN
    /\ \E i \in 1..Len(LoadedTable.rows) :
          /\ LoadedTable.rows[i].country = "World"
          /\ Cell(LoadedTable.rows[i], LoadedTable.columns, Y2022) # NaN
    /\ \E r \in continent_ts :
          r.continent = "EU" /\ r.year = 2022 /\ r.population = 4000000

\* the run is past the year check of load_and_preprocess_data
PastYearCheck == pc \notin {"import", "main", "load"}

\* C6: when the chosen year is not a column of the loaded table,
\* load_and_preprocess_data raises ValueError before anything is merged,
\* clustered or rendered, and neither output file is written.
C6_YearAbsentAborts ==
    (/\ PastYearCheck
     /\ failedIn # "<module>"
     /\ csvAtLoad.exists
     /\ RECENT_YEAR \notin Range(LoadedTable.columns))
    => /\ pc = "failed"
       /\ error = "ValueError"
       /\ failedIn = "load_and_preprocess_data"
       /\ ~Loaded
       /\ merged_gdf = <<>>
       /\ world_map = <<>>
       /\ hotspot_gdf = <<>>
       /\ hotspot_layer = <<>>
       /\ continent_ts = {}
       /\ files = {}

\* C6's case: the year was taken from the file's columns at startup, and the
\* table loaded later does not have it
C6_Witness ==
    /\ pc = "failed"
    /\ csvAtImport.exists
    /\ csvAtLoad.exists
    /\ RECENT_YEAR # <<>>
    /\ RECENT_YEAR \notin Range(LoadedTable.columns)
    /\ error = "ValueError"

\* C7: the year chosen at startup is the numerically largest of the column
\* headers that parse as integers.
C7_RecentYearIsNumericMax ==
    (pc # "import" /\ csvAtImport.exists /\ failedIn # "<module>")
    => /\ RECENT_YEAR \in Range(year_columns(csvAtImport.columns))
       /\ \A h \in Range(year_columns(csvAtImport.columns)) :
             IntVal(h) <= IntVal(RECENT_YEAR)

\* the merged countries above the hotspot threshold
Qualifying == {i \in 1..Len(merged_gdf) : merged_gdf[i].population[1] > 1000000}

\* C8: with fewer than min_samples (0, 1 or 2) qualifying countries,
\* perform_hotspot_analysis raises nothing, finds no cluster and adds an
\* empty hotspot layer.
C8_FewQualifyingNoError ==
    (Loaded /\ Cardinality(Qualifying) < 3)
    => /\ failedIn # "perform_hotspot_analysis"
       /\ hotspot_layer = <<>>
       /\ \A i \in 1..Len(world_map) : world_map[i].children = <<>>
       /\ \A i \in 1..Len(hotspot_gdf) : hotspot_gdf[i].cluster = -1

\* C9: with more clusters than the palette has colours, the colour lookup
\* raises nothing and the hotspot layer is built.
C9_PaletteExhaustionNoError ==
    (pc \notin {"import", "main", "load", "choropleth", "hotspot"}
     /\ num_clusters(labels_of(hotspot_gdf)) > Len(Bold))
    => /\ ~(pc = "failed" /\ failedIn = "perform_hotspot_analysis")
       /\ pc \in {"save", "timeseries", "done"} =>
             \E i \in 1..Len(world_map) :
                /\ world_map[i].name = "Population Hotspots"
                /\ \A c \in 0..(num_clusters(labels_of(hotspot_gdf)) - 1) :
                      \E m \in Range(world_map[i].children) : m.cluster = c

=============================================================================
